---- MODULE Spec2Model ----
(***************************************************************************)
(* Model of the name-extraction pipeline of src/src/text_from_image_       *)
(* extractor.py (TextFromImageExtractor) and of the /upload handler of     *)
(* src/app.py.                                                             *)
(*                                                                         *)
(* Strings are sequences of one-character strings, so that filtering,      *)
(* title-casing, splitting and suffix tests are computed character by      *)
(* character as Python computes them.  OCR confidences are in hundredths   *)
(* (0.25 is 25), angles in tenths of a degree (-45 degrees is -450), box   *)
(* coordinates in tenths of a pixel before the int() coercion.             *)
(***************************************************************************)
EXTENDS Integers, Sequences, FiniteSets, TLC

VARIABLES
    text_in, text_out, clean_done,
    raw_angle, angle_out, angle_done,
    text_, loc_i, text_and_boxes,
    ner_in, ner_docs, ner_i, results,
    raw_files, processed_files, req

vars == <<text_in, text_out, clean_done,
          raw_angle, angle_out, angle_done,
          text_, loc_i, text_and_boxes,
          ner_in, ner_docs, ner_i, results,
          raw_files, processed_files, req>>

cleanVars == <<text_in, text_out, clean_done>>
angleVars == <<raw_angle, angle_out, angle_done>>
locVars == <<text_, loc_i, text_and_boxes>>
nerVars == <<ner_in, ner_docs, ner_i, results>>
appVars == <<raw_files, processed_files, req>>

(***************************************************************************)
(* Characters and Python's str methods                                     *)
(***************************************************************************)
Lowers == <<"a","b","c","d","e","f","g","h","i","j","k","l","m",
            "n","o","p","q","r","s","t","u","v","w","x","y","z">>

Uppers == <<"A","B","C","D","E","F","G","H","I","J","K","L","M",
            "N","O","P","Q","R","S","T","U","V","W","X","Y","Z">>

Digits == {"0","1","2","3","4","5","6","7","8","9"}

Range(s) == {s[i] : i \in DOMAIN s}

\* str.islower / str.isupper / str.isalpha of one character
IsLower(c) == c \in Range(Lowers)

IsUpper(c) == c \in Range(Uppers)

IsAlpha(c) == IsLower(c) \/ IsUpper(c)

IndexIn(s, c) == CHOOSE i \in DOMAIN s : s[i] = c

ToUpper(c) == IF IsLower(c) THEN Uppers[IndexIn(Lowers, c)] ELSE c

ToLower(c) == IF IsUpper(c) THEN Lowers[IndexIn(Uppers, c)] ELSE c

\* str.title(): a cased character is upper-cased when the previous character
\* is not cased, lower-cased when it is; other characters are kept.
RECURSIVE TitleRec(_, _)
TitleRec(s, prevCased) ==
    IF s = <<>> THEN <<>>
    ELSE LET c == Head(s) IN
         IF IsLower(c)
         THEN <<IF prevCased THEN c ELSE ToUpper(c)>> \o TitleRec(Tail(s), TRUE)
         ELSE IF IsUpper(c)
         THEN <<IF prevCased THEN ToLower(c) ELSE c>> \o TitleRec(Tail(s), TRUE)
         ELSE <<c>> \o TitleRec(Tail(s), FALSE)

Title(s) == TitleRec(s, FALSE)

\* str.split(sep) with an explicit one-character separator: one token per
\* separator plus one, empty tokens kept ("".split(" ") is [""]).
RECURSIVE SplitRec(_, _, _)
SplitRec(s, sep, cur) ==
    IF s = <<>> THEN <<cur>>
    ELSE IF Head(s) = sep
         THEN <<cur>> \o SplitRec(Tail(s), sep, <<>>)
         ELSE SplitRec(Tail(s), sep, Append(cur, Head(s)))

Split(s, sep) == SplitRec(s, sep, <<>>)

\* str.endswith(suffix)
EndsWith(s, suffix) ==
    /\ Len(suffix) <= Len(s)
    /\ SubSeq(s, Len(s) - Len(suffix) + 1, Len(s)) = suffix

\* every sequence over S of length at most n
SeqsUpTo(S, n) == UNION {[1..k -> S] : k \in 0..n}

(***************************************************************************)
(* extract_text, line 147: the text post-processing                        *)
(***************************************************************************)
KeepChar(c) == IsAlpha(c) \/ c = " "

CleanTextNoTitle(text) == SelectSeq(text, KeepChar)

CleanText(text) == Title(SelectSeq(text, KeepChar))

(***************************************************************************)
(* get_angle, lines 197-202: the fold of the raw minAreaRect angle         *)
(***************************************************************************)
GetAngleLe(angle) == IF angle <= -450 THEN -(900 + angle) ELSE -angle

GetAngle(angle) == IF angle < -450 THEN -(900 + angle) ELSE -angle

(***************************************************************************)
(* The dict text_and_boxes: Python dicts iterate in insertion order, and   *)
(* assigning to an existing key replaces its value where the key stands.   *)
(***************************************************************************)
DictKeys(d) == [i \in DOMAIN d |-> d[i].key]

DictHas(d, k) == \E i \in DOMAIN d : d[i].key = k

DictGet(d, k) == d[CHOOSE i \in DOMAIN d : d[i].key = k].value

DictSetKeepFirst(d, k, v) ==
    IF DictHas(d, k) THEN d ELSE Append(d, [key |-> k, value |-> v])

DictSet(d, k, v) ==
    IF DictHas(d, k)
    THEN [i \in DOMAIN d |-> IF d[i].key = k THEN [key |-> k, value |-> v] ELSE d[i]]
    ELSE Append(d, [key |-> k, value |-> v])

(***************************************************************************)
(* extract_text, lines 138-153: the loop over the OCR triples              *)
(***************************************************************************)
\* threshold = 0.25, in hundredths
threshold == 25

\* int() of a coordinate given in tenths: truncation toward zero
IntCoord(x) == IF x >= 0 THEN x \div 10 ELSE -((-x) \div 10)

\* lines 143-145
IntBox(bbox) == [i \in DOMAIN bbox |-> <<IntCoord(bbox[i][1]), IntCoord(bbox[i][2])>>]

RetainedGe(score) == score >= threshold

\* line 149
Retained(score) == score > threshold

\* one iteration of the loop at line 141 on the triple t
LocateStep(d, t) ==
    LET bbox == IntBox(t.bbox)
        preprocessed_text == CleanText(t.text)
    IN  IF Retained(t.score) THEN DictSet(d, preprocessed_text, bbox) ELSE d

RECURSIVE LocateLoop(_, _)
LocateLoop(d, ts) ==
    IF ts = <<>> THEN d ELSE LocateLoop(LocateStep(d, Head(ts)), Tail(ts))

\* lines 140-153 on the OCR output text_
ExtractTextLoop(ts) == LocateLoop(<<>>, ts)

(***************************************************************************)
(* ner, lines 219-226                                                      *)
(***************************************************************************)
NerKeepsAnyLabel(ent) == Len(Split(ent.text, " ")) = 2

NerKeepsTwoOrMore(ent) == ent.label_ = "PERSON" /\ Len(Split(ent.text, " ")) >= 2

\* line 224
NerKeeps(ent) == ent.label_ = "PERSON" /\ Len(Split(ent.text, " ")) = 2

\* lines 223-225 on the entities of one document
NerOfDoc(ents) ==
    LET kept == SelectSeq(ents, NerKeeps)
    IN  [i \in DOMAIN kept |-> kept[i].text]

RECURSIVE NerLoop(_, _)
NerLoop(keys, docs) ==
    IF keys = <<>> THEN <<>>
    ELSE NerOfDoc(Head(docs)) \o NerLoop(Tail(keys), Tail(docs))

\* lines 220-226: docs[i] is what nlp(text).ents gives for the i-th key
Ner(d, docs) == NerLoop(DictKeys(d), docs)

(***************************************************************************)
(* The parts of the state a specification does not exercise                *)
(***************************************************************************)
CleanIdle == text_in = <<>> /\ text_out = <<>> /\ clean_done = TRUE

AngleIdle == raw_angle = 0 /\ angle_out = 0 /\ angle_done = TRUE

LocateIdle == text_ = <<>> /\ loc_i = 0 /\ text_and_boxes = <<>>

NerIdle == ner_in = <<>> /\ ner_docs = <<>> /\ ner_i = 0 /\ results = <<>>

AppIdle == raw_files = <<>> /\ processed_files = <<>> /\ req = <<>>

(***************************************************************************)
(* SpecClean: the text post-processing of line 147 on bounded OCR texts    *)
(***************************************************************************)
MaxTextLen == 3

CleanChars == {"j", "S", "0", "!", " "}

ExampleSmith == <<"j","0","h","n"," ","S","M","I","T","H","!">>

ExampleDoe == <<"J","0","h","n"," ","D","0","3">>

CleanInputs == SeqsUpTo(CleanChars, MaxTextLen) \cup {ExampleSmith, ExampleDoe}

InitClean ==
    /\ text_in \in CleanInputs
    /\ text_out = <<>>
    /\ clean_done = FALSE
    /\ AngleIdle /\ LocateIdle /\ NerIdle /\ AppIdle

\* line 147
Preprocess ==
    /\ ~clean_done
    /\ text_out' = CleanText(text_in)
    /\ clean_done' = TRUE
    /\ UNCHANGED <<text_in, angleVars, locVars, nerVars, appVars>>

NextClean == Preprocess

SpecClean == InitClean /\ [][NextClean]_vars

(***************************************************************************)
(* SpecAngle: get_angle on the angles cv2.minAreaRect can report, in       *)
(* tenths of a degree.  OpenCV before 4.5.1 reports [-90, 0), later        *)
(* versions (0, 90]; the source pins no version.                           *)
(***************************************************************************)
RectAngles == -900 .. 900

InitAngle ==
    /\ raw_angle \in RectAngles
    /\ angle_out = 0
    /\ angle_done = FALSE
    /\ CleanIdle /\ LocateIdle /\ NerIdle /\ AppIdle

\* lines 197-202
Normalise ==
    /\ ~angle_done
    /\ angle_out' = GetAngle(raw_angle)
    /\ angle_done' = TRUE
    /\ UNCHANGED <<raw_angle, cleanVars, locVars, nerVars, appVars>>

NextAngle == Normalise

SpecAngle == InitAngle /\ [][NextAngle]_vars

(***************************************************************************)
(* SpecLocate: the loop of extract_text over bounded OCR outputs           *)
(***************************************************************************)
MaxTriples == 3

BoxA == <<<<10, 10>>, <<25, 10>>, <<25, 29>>, <<10, 29>>>>

BoxB == <<<<-4, 37>>, <<68, 37>>, <<68, 51>>, <<-4, 51>>>>

OcrBoxes == {BoxA, BoxB}

\* "jn!" and "J0N" clean to the same key "Jn"
OcrTexts == {<<"j","n","!">>, <<"J","0","N">>, <<"a"," ","b">>}

OcrScores == {10, 25, 90}

OcrTriples == [bbox : OcrBoxes, text : OcrTexts, score : OcrScores]

InitLocate ==
    /\ text_ \in SeqsUpTo(OcrTriples, MaxTriples)
    /\ loc_i = 0
    /\ text_and_boxes = <<>>
    /\ CleanIdle /\ AngleIdle /\ NerIdle /\ AppIdle

\* lines 141-150: one iteration
LocateIter ==
    /\ loc_i < Len(text_)
    /\ text_and_boxes' = LocateStep(text_and_boxes, text_[loc_i + 1])
    /\ loc_i' = loc_i + 1
    /\ UNCHANGED <<text_, cleanVars, angleVars, nerVars, appVars>>

NextLocate == LocateIter

SpecLocate == InitLocate /\ [][NextLocate]_vars

(***************************************************************************)
(* Claims on extract_text (SpecLocate, SpecClean)                          *)
(***************************************************************************)
\* the triples among the first n that are above 0.25 and clean to the key k
RetainedAs(k, n) ==
    {j \in 1..n : j <= Len(text_) /\ text_[j].score > 25 /\ CleanText(text_[j].text) = k}

SetMax(S) == CHOOSE x \in S : \A y \in S : y <= x

SetMin(S) == CHOOSE x \in S : \A y \in S : x <= y

C3_KeysRetained ==
    \A i \in DOMAIN text_and_boxes : RetainedAs(text_and_boxes[i].key, loc_i) # {}

C3_LowIgnored ==
    (loc_i' = loc_i + 1 /\ text_[loc_i'].score <= 25) => text_and_boxes' = text_and_boxes

\* C3: every key of the mapping comes from a processed triple whose
\* confidence is strictly greater than 0.25, and an iteration on a triple of
\* confidence at most 0.25 (0.25 included) leaves the mapping as it was.
C3_ConfidenceFilter == []C3_KeysRetained /\ [][C3_LowIgnored]_vars

\* C3 witness: a triple of confidence exactly 0.25 was processed after a
\* retained one, and the mapping holds the retained key only.
C3_Witness ==
    /\ loc_i = 2
    /\ text_[1].score = 90
    /\ text_[2].score = 25
    /\ CleanText(text_[2].text) # CleanText(text_[1].text)
    /\ Len(text_and_boxes) = 1

\* C9: the box stored under a key is the integer box of the last processed
\* triple above 0.25 that cleans to that key, and the keys stand in the order
\* of their first retained occurrence, each once.
C9_LastBoxFirstPosition ==
    /\ \A i \in DOMAIN text_and_boxes :
          LET J == RetainedAs(text_and_boxes[i].key, loc_i)
          IN  /\ J # {}
              /\ text_and_boxes[i].value = IntBox(text_[SetMax(J)].bbox)
    /\ \A a, b \in DOMAIN text_and_boxes :
          a < b => SetMin(RetainedAs(text_and_boxes[a].key, loc_i))
                     < SetMin(RetainedAs(text_and_boxes[b].key, loc_i))
    /\ \A j \in 1..loc_i :
          text_[j].score > 25 => DictHas(text_and_boxes, CleanText(text_[j].text))

\* C9 witness: the same cleaned text was retained twice with different boxes
\* around another key; the key stands first and holds the later box.
C9_Witness ==
    /\ loc_i = 3
    /\ text_[1].score = 90 /\ text_[2].score = 90 /\ text_[3].score = 90
    /\ CleanText(text_[1].text) = CleanText(text_[3].text)
    /\ text_[1].text # text_[3].text
    /\ CleanText(text_[2].text) # CleanText(text_[1].text)
    /\ text_[1].bbox = BoxA /\ text_[3].bbox = BoxB
    /\ Len(text_and_boxes) = 2
    /\ text_and_boxes[1].key = CleanText(text_[1].text)
    /\ text_and_boxes[1].value = IntBox(BoxB)

\* the positions of text_in that line 147 keeps
KeptPositions == {i \in DOMAIN text_in : IsAlpha(text_in[i]) \/ text_in[i] = " "}

\* the k-th kept position
KeptAt(k) ==
    CHOOSE i \in KeptPositions : Cardinality({j \in KeptPositions : j <= i}) = k

\* the cleaned text is the kept characters in their order, up to case, and
\* a letter is upper case exactly at the start or after a space
C4_FilteredTitled ==
    /\ Len(text_out) = Cardinality(KeptPositions)
    /\ \A k \in DOMAIN text_out :
          /\ ToLower(text_out[k]) = ToLower(text_in[KeptAt(k)])
          /\ IsAlpha(text_out[k]) =>
                (IsUpper(text_out[k]) <=> (k = 1 \/ text_out[k - 1] = " "))

JhnSmith == <<"J","h","n"," ","S","m","i","t","h">>

JohnSmith == <<"J","o","h","n"," ","S","m","i","t","h">>

\* C4 (amended): the cleaned text is the input's alphabetic and space
\* characters in their order, title-cased; "j0hn SMITH!" is cleaned to
\* "Jhn Smith" (the digit is removed, not read as a letter).
C4_CleanText ==
    clean_done =>
        /\ C4_FilteredTitled
        /\ text_in = ExampleSmith => text_out = JhnSmith

\* C4 as stated: "j0hn SMITH!" is cleaned to "John Smith".
C4_AsStated ==
    clean_done =>
        /\ C4_FilteredTitled
        /\ text_in = ExampleSmith => text_out = JohnSmith

\* C4 witness: the example input has been cleaned
C4_Witness == clean_done /\ text_in = ExampleSmith /\ text_out = JhnSmith

MaxEnts == 2

Labels == {"PERSON", "ORG"}

WordStarts(text) ==
    {i \in DOMAIN text : text[i] # " " /\ (i = 1 \/ text[i - 1] = " ")}

WordEnds(text) ==
    {i \in DOMAIN text : text[i] # " " /\ (i = Len(text) \/ text[i + 1] = " ")}

Spans(text) ==
    {sp \in WordStarts(text) \X WordEnds(text) : sp[1] <= sp[2]}

\* the entity sequences of at most n spans that start at position from or later
RECURSIVE EntsFrom(_, _, _)
EntsFrom(text, from, n) ==
    IF n = 0 THEN {<<>>}
    ELSE {<<>>} \cup UNION {
            {<<[label_ |-> l, text |-> SubSeq(text, sp[1], sp[2])]>> \o rest :
                rest \in EntsFrom(text, sp[2] + 1, n - 1)} :
            sp \in {x \in Spans(text) : x[1] >= from}, l \in Labels}

NlpOutcomes(text) == EntsFrom(text, 1, MaxEnts)

(***************************************************************************)
(* SpecNer: ner over bounded fragment mappings                             *)
(***************************************************************************)
MaxKeys == 2

\* "Al Bo Cy", "Al  Bo" (two spaces), "Di Ed"
NerTexts ==
    {<<"A","l"," ","B","o"," ","C","y">>,
     <<"A","l"," "," ","B","o">>,
     <<"D","i"," ","E","d">>}

IsInjective(q) == \A i, j \in DOMAIN q : i # j => q[i] # q[j]

NerMappings ==
    {[i \in DOMAIN q |-> [key |-> q[i], value |-> IntBox(BoxA)]] :
        q \in {k \in SeqsUpTo(NerTexts, MaxKeys) : IsInjective(k)}}

InitNer ==
    /\ ner_in \in NerMappings
    /\ ner_docs = <<>>
    /\ ner_i = 0
    /\ results = <<>>
    /\ CleanIdle /\ AngleIdle /\ LocateIdle /\ AppIdle

\* lines 221-225: one iteration of the loop over the keys; ner_docs records
\* what nlp returned for each key
NerIter ==
    /\ ner_i < Len(ner_in)
    /\ \E ents \in NlpOutcomes(ner_in[ner_i + 1].key) :
          /\ ner_docs' = Append(ner_docs, ents)
          /\ results' = results \o NerOfDoc(ents)
    /\ ner_i' = ner_i + 1
    /\ UNCHANGED <<ner_in, cleanVars, angleVars, locVars, appVars>>

NextNer == NerIter

SpecNer == InitNer /\ [][NextNer]_vars

(***************************************************************************)
(* Claims on ner (SpecNer)                                                 *)
(***************************************************************************)
\* splitting on " " gives one token more than there are spaces
TwoTokens(text) == Cardinality({i \in DOMAIN text : text[i] = " "}) = 1

\* (key position, entity position) of the entities the claim retains
Selected ==
    {p \in (1..ner_i) \X (1..MaxEnts + 1) :
        /\ p[2] \in DOMAIN ner_docs[p[1]]
        /\ ner_docs[p[1]][p[2]].label_ = "PERSON"
        /\ TwoTokens(ner_docs[p[1]][p[2]].text)}

Before(p, q) == p[1] < q[1] \/ (p[1] = q[1] /\ p[2] < q[2])

NumRequests == 2

Requests == 1 .. NumRequests

\* werkzeug's secure_filename (line 44 of app.py): path separators become
\* spaces, whitespace runs become "_", characters outside [A-Za-z0-9_.-] are
\* dropped, leading and trailing "." and "_" are stripped.
RECURSIVE JoinWith(_, _)
JoinWith(tokens, sep) ==
    IF tokens = <<>> THEN <<>>
    ELSE IF Len(tokens) = 1 THEN Head(tokens)
    ELSE Head(tokens) \o <<sep>> \o JoinWith(Tail(tokens), sep)

RECURSIVE StripEnds(_)
StripEnds(s) ==
    IF s = <<>> THEN s
    ELSE IF Head(s) \in {".", "_"} THEN StripEnds(Tail(s))
    ELSE IF s[Len(s)] \in {".", "_"} THEN StripEnds(SubSeq(s, 1, Len(s) - 1))
    ELSE s

SafeChar(c) == IsAlpha(c) \/ c \in Digits \/ c \in {"_", ".", "-"}

NonEmpty(t) == t # <<>>

SecureFilename(name) ==
    LET spaced == [i \in DOMAIN name |-> IF name[i] = "/" THEN " " ELSE name[i]]
        joined == JoinWith(SelectSeq(Split(spaced, " "), NonEmpty), "_")
    IN  StripEnds(SelectSeq(joined, SafeChar))

\* line 40 of app.py
AllowedFormats ==
    {<<".","j","p","e","g">>, <<".","j","p","g">>, <<".","p","n","g">>}

\* line 40 of app.py, as written: all(...) over the three suffixes
InvalidFormat(name) == \A allowed_format \in AllowedFormats : EndsWith(name, allowed_format)

\* self.raw_data_folder + image_path (lines 169, 172)
RawPath(image_path) == image_path

SharedPath(image_path) == <<"a",".","p","n","g">>

\* self.processed_data_folder + image_path (line 175)
ProcessPath(image_path) == image_path

\* self.processed_data_folder + image_path (line 128)
ProcessedReadPath(image_path) == image_path

(***************************************************************************)
(* The uploaded images, by what the libraries make of them                 *)
(***************************************************************************)
\* card: an ID card; form: a form with a "Name: ..." line; photo: no text;
\* gif: a GIF, which PIL opens and cv2.imread does not; corrupt: not an image
Images == {"card", "form", "photo", "gif", "corrupt"}

NamePng == <<"a",".","p","n","g">>

NameJpg == <<"/","b",".","j","p","g">>

NameGif == <<"a",".","g","i","f">>

\* the uploads of the model: the filename sent and the image under it
Uploads ==
    {[name |-> NamePng, img |-> "card"], [name |-> NamePng, img |-> "form"],
     [name |-> NameJpg, img |-> "card"], [name |-> NameJpg, img |-> "photo"],
     [name |-> NameJpg, img |-> "corrupt"], [name |-> NameGif, img |-> "gif"],
     [name |-> NameGif, img |-> "card"]}

Paths == {SecureFilename(u.name) : u \in Uploads}

\* cv2.imread (lines 128, 169) returns None for what it cannot decode
CvDecodes(img) == img \in {"card", "form", "photo"}

\* Image.open (line 172) raises for what it cannot identify
PilOpens(img) == img \in {"card", "form", "photo", "gif"}

\* cv2.imread reads no GIF, whatever the image saved as one
GifSuffix == <<".","g","i","f">>

\* cv2.minAreaRect(coords)[-1] (line 197), in tenths of a degree
RectAngle(img) ==
    CASE img = "card" -> -600
      [] img = "form" -> -900
      [] OTHER -> -20

\* reader.readtext(image) (line 136)
ReadText(img) ==
    CASE img = "card" ->
            <<[bbox |-> BoxA, text |-> <<"j","a","n","e"," ","D","O","E">>, score |-> 90],
              [bbox |-> BoxB, text |-> <<"n","o"," ","7">>, score |-> 90],
              [bbox |-> BoxB, text |-> <<"x">>, score |-> 10]>>
      [] img = "form" ->
            <<[bbox |-> BoxB, text |-> <<"N","a","m","e",":"," ","A","l"," ","B","o">>,
               score |-> 90]>>
      [] OTHER -> <<>>

\* what nlp returns for each key, in the order of the keys
RECURSIVE NlpChoicesFor(_)
NlpChoicesFor(keys) ==
    IF keys = <<>> THEN {<<>>}
    ELSE LET rest == NlpChoicesFor(Tail(keys))
         IN  {<<ents>> \o docs : ents \in NlpOutcomes(Head(keys)), docs \in rest}

\* the lists ner can return on the mapping d
NerResults(d) == {Ner(d, docs) : docs \in NlpChoicesFor(DictKeys(d))}

(***************************************************************************)
(* State of one request                                                    *)
(***************************************************************************)
NoResponse == [status |-> 0, error |-> "", result |-> <<>>]

Failure(code, kind) == [status |-> code, error |-> kind, result |-> <<>>]

IdleRequest ==
    [pc |-> "idle", has_file |-> FALSE, upload_name |-> <<>>, upload_img |-> "None",
     filename |-> <<>>, cv_img |-> "None", angle |-> 0, pil_src |-> "None",
     rotated |-> FALSE, proc |-> <<>>, text_and_boxes |-> <<>>, ner_results |-> <<>>,
     response |-> NoResponse, skew_calls |-> 0, wrote |-> FALSE, ocr_runs |-> 0,
     ner_runs |-> 0, saved |-> FALSE, proc_reads |-> 0, clash |-> FALSE]

InFlight(r) == req[r].pc \notin {"idle", "done"}

Init ==
    /\ raw_files = [p \in Paths |-> "None"]
    /\ processed_files = [p \in Paths |-> <<>>]
    /\ req = [r \in Requests |-> IdleRequest]
    /\ CleanIdle /\ AngleIdle /\ LocateIdle /\ NerIdle

\* upload_file, lines 34-56 of app.py: the checks, file.save and the form
\* fields.  A missing form field makes .title() raise on None (line 49).
\* Requests are numbered in their order of arrival; clash records that two
\* requests were in flight with the same stored filename.
Upload(r) ==
    /\ req[r].pc = "idle"
    /\ \A o \in Requests : o < r => req[o].pc # "idle"
    /\ \E has_file \in BOOLEAN, up \in Uploads, has_names \in BOOLEAN :
          LET name == up.name
              img == up.img
              filename == SecureFilename(name)
              clash == \E o \in Requests \ {r} : InFlight(o) /\ req[o].filename = filename
              seen == [req[r] EXCEPT !.has_file = has_file,
                                     !.upload_name = IF has_file THEN name ELSE <<>>,
                                     !.upload_img = IF has_file THEN img ELSE "None"]
          IN  IF ~has_file
              THEN /\ req' = [req EXCEPT ![r] =
                          [seen EXCEPT !.pc = "done",
                                       !.response = Failure(400, "No file part in the request")]]
                   /\ UNCHANGED raw_files
              ELSE IF InvalidFormat(name)
              THEN /\ req' = [req EXCEPT ![r] =
                          [seen EXCEPT !.pc = "done",
                                       !.response = Failure(400, "Invalid file format")]]
                   /\ UNCHANGED raw_files
              ELSE /\ raw_files' = [raw_files EXCEPT ![RawPath(filename)] = img]
                   /\ req' = [o \in Requests |->
                          IF o = r
                          THEN IF ~has_names
                               THEN [seen EXCEPT !.pc = "done", !.saved = TRUE,
                                                 !.filename = filename, !.clash = clash,
                                                 !.response = Failure(500, "AttributeError")]
                               ELSE [seen EXCEPT !.pc = "skew", !.saved = TRUE,
                                                 !.filename = filename, !.clash = clash]
                          ELSE IF InFlight(o) /\ req[o].filename = filename
                          THEN [req[o] EXCEPT !.clash = TRUE]
                          ELSE req[o]]
    /\ UNCHANGED <<processed_files, cleanVars, angleVars, locVars, nerVars>>

GetAngleAcceptsNone(cv2_img) == FALSE

\* get_angle, line 192: cv2.cvtColor raises cv2.error on None
GetAngleRaises(cv2_img) == cv2_img = "None"

\* correct_skew, lines 169-170: cv2.imread of the raw file, then get_angle
SkewRead(r) ==
    /\ req[r].pc = "skew"
    /\ LET q == req[r]
           on_disk == raw_files[RawPath(q.filename)]
           img == IF CvDecodes(on_disk) THEN on_disk ELSE "None"
           called == [q EXCEPT !.skew_calls = @ + 1, !.cv_img = on_disk]
       IN  IF GetAngleRaises(img)
           THEN req' = [req EXCEPT ![r] =
                   [called EXCEPT !.pc = "done", !.response = Failure(500, "cv2.error")]]
           ELSE req' = [req EXCEPT ![r] =
                   [called EXCEPT !.pc = "open", !.angle = GetAngle(RectAngle(on_disk))]]
    /\ UNCHANGED <<raw_files, processed_files, cleanVars, angleVars, locVars, nerVars>>

\* correct_skew, lines 172-174: Image.open of the raw file; rotate loads the
\* pixels, and without a rotation they are loaded only by save
SkewOpen(r) ==
    /\ req[r].pc = "open"
    /\ LET q == req[r]
           on_disk == raw_files[RawPath(q.filename)]
       IN  IF ~PilOpens(on_disk)
           THEN req' = [req EXCEPT ![r] =
                   [q EXCEPT !.pc = "done", !.pil_src = on_disk,
                             !.response = Failure(500, "UnidentifiedImageError")]]
           ELSE req' = [req EXCEPT ![r] =
                   [q EXCEPT !.pc = "save", !.pil_src = on_disk, !.rotated = (q.angle # 0)]]
    /\ UNCHANGED <<raw_files, processed_files, cleanVars, angleVars, locVars, nerVars>>

\* correct_skew, lines 175-176: img.save loads the pixels of an image that
\* was not rotated, then writes the processed file
SkewSave(r) ==
    /\ req[r].pc = "save"
    /\ LET q == req[r]
           src == IF q.rotated THEN q.pil_src ELSE raw_files[RawPath(q.filename)]
       IN  IF ~PilOpens(src)
           THEN /\ req' = [req EXCEPT ![r] =
                       [q EXCEPT !.pc = "done", !.pil_src = src,
                                 !.response = Failure(500, "OSError")]]
                /\ UNCHANGED processed_files
           ELSE /\ processed_files' = [processed_files EXCEPT ![ProcessPath(q.filename)] =
                       <<[by |-> r, img |-> src, angle |-> q.angle]>>]
                /\ req' = [req EXCEPT ![r] =
                       [q EXCEPT !.pc = "read", !.pil_src = src, !.wrote = TRUE]]
    /\ UNCHANGED <<raw_files, cleanVars, angleVars, locVars, nerVars>>

\* text_extraction_and_landmarking, lines 70-88, on the mapping d and the
\* list ner_results: the response of the request
Landmark(d, ner_results) ==
    IF ner_results = <<>> THEN Failure(500, "IndexError")
    ELSE LET top_ner_result == ner_results[1]
             splitted_name == Split(top_ner_result, " ")
         IN  IF Len(splitted_name) < 2 THEN Failure(500, "IndexError")
             ELSE IF ~DictHas(d, top_ner_result) THEN Failure(500, "KeyError")
             ELSE [status |-> 200, error |-> "",
                   result |-> <<[full_name |-> top_ner_result,
                                 first_name |-> splitted_name[1],
                                 last_name |-> splitted_name[2],
                                 box |-> DictGet(d, top_ner_result)]>>]

\* extract_text lines 136-153 on each image: the mapping it returns
MappingOf == [img \in Images |-> ExtractTextLoop(ReadText(img))]

\* ner on that mapping: the lists it can return
NerResultsOf == [img \in Images |-> NerResults(MappingOf[img])]

\* extract_text from line 128 on, then text_extraction_and_landmarking lines
\* 70-88 and the response of app.py lines 62-71.  cv2.imread reads the
\* processed file, which PIL wrote in the format of its extension, and
\* cvtColor raises on None; all that follows the read is local to the request
\* (the similarity score, a function of the result and the form fields alone,
\* is left out).
Extract(r) ==
    /\ req[r].pc = "read"
    /\ LET q == req[r]
           path == ProcessedReadPath(q.filename)
           on_disk == processed_files[path]
       IN  IF on_disk = <<>> \/ ~CvDecodes(on_disk[1].img) \/ EndsWith(path, GifSuffix)
           THEN req' = [req EXCEPT ![r] =
                   [q EXCEPT !.pc = "done", !.proc = on_disk, !.proc_reads = @ + 1,
                             !.response = Failure(500, "cv2.error")]]
           ELSE LET d == MappingOf[on_disk[1].img]
                IN  \E ner_results \in NerResultsOf[on_disk[1].img] :
                       req' = [req EXCEPT ![r] =
                           [q EXCEPT !.pc = "done", !.proc = on_disk,
                                     !.proc_reads = @ + 1,
                                     !.ocr_runs = @ + 1, !.ner_runs = @ + 1,
                                     !.text_and_boxes = d, !.ner_results = ner_results,
                                     !.response = Landmark(d, ner_results)]]
    /\ UNCHANGED <<raw_files, processed_files, cleanVars, angleVars, locVars, nerVars>>

Next ==
    \E r \in Requests :
        \/ Upload(r)
        \/ SkewRead(r)
        \/ SkewOpen(r)
        \/ SkewSave(r)
        \/ Extract(r)

Spec == Init /\ [][Next]_vars

(***************************************************************************)
(* Claims on the orchestrator and the upload handler (Spec)                *)
(***************************************************************************)
\* C1 as stated: when ner finds no two-token PERSON entity, the request ends
\* with NoNameFoundError and not with an index-out-of-range fault.
C1_AsStated ==
    \A r \in Requests :
        (req[r].ner_runs = 1 /\ req[r].ner_results = <<>>) =>
            /\ req[r].response.error = "NoNameFoundError"
            /\ req[r].response.error # "IndexError"

\* C2 as stated: the top candidate is a key of the mapping extract_text
\* returned, and the lookup of its box succeeds.
C2_AsStated ==
    \A r \in Requests :
        (req[r].ner_runs = 1 /\ req[r].ner_results # <<>>) =>
            /\ DictHas(req[r].text_and_boxes, req[r].ner_results[1])
            /\ req[r].response.error # "KeyError"

HasAllowedFormat(name) == \E allowed_format \in AllowedFormats : EndsWith(name, allowed_format)

\* C7 as stated: a file whose name ends with none of .jpeg, .jpg, .png is
\* answered 400 with the invalid-format error, is not saved and is not
\* extracted from.
C7_AsStated ==
    \A r \in Requests :
        (req[r].has_file /\ ~HasAllowedFormat(req[r].upload_name)) =>
            /\ req[r].response = Failure(400, "Invalid file format")
            /\ ~req[r].saved
            /\ req[r].skew_calls = 0

WrittenBy(r) ==
    {p \in DOMAIN processed_files :
        processed_files[p] # <<>> /\ processed_files[p][1].by = r}

\* C8: a request whose raw image cv2 or PIL could not decode has ended in a
\* failure without a result, after one call of correct_skew, having written
\* no processed file and run neither OCR nor NER.
C8_DecodeFailureAborts ==
    \A r \in Requests :
        LET q == req[r]
        IN  (\/ q.skew_calls > 0 /\ ~CvDecodes(q.cv_img)
             \/ q.pil_src # "None" /\ ~PilOpens(q.pil_src)) =>
                /\ q.pc = "done"
                /\ q.response.status = 500
                /\ q.response.error \in {"cv2.error", "UnidentifiedImageError", "OSError"}
                /\ q.response.result = <<>>
                /\ q.skew_calls = 1
                /\ ~q.wrote /\ WrittenBy(r) = {}
                /\ q.proc_reads = 0 /\ q.ocr_runs = 0 /\ q.ner_runs = 0

\* C8 witness: a request that uploaded the undecodable image has failed in
\* correct_skew, while another request's processed file is in place.
C8_Witness ==
    \E r \in Requests :
        /\ req[r].upload_img = "corrupt"
        /\ req[r].cv_img = "corrupt"
        /\ req[r].pc = "done"
        /\ req[r].response = Failure(500, "cv2.error")
        /\ \E o \in Requests \ {r} : WrittenBy(o) # {}

\* C10: a request that met no other in-flight request under its filename
\* reads the processed image its own correct_skew wrote from its own raw
\* image, and every request writes the processed file before it reads it.
C10_OwnProcessedImage ==
    \A r \in Requests :
        LET q == req[r]
        IN  q.proc_reads > 0 =>
                /\ q.wrote
                /\ ~q.clash =>
                      /\ q.proc # <<>>
                      /\ q.proc[1].by = r
                      /\ q.proc[1].img = q.upload_img
                      /\ q.proc[1].angle = GetAngle(RectAngle(q.upload_img))

\* C10 witness: the second request has read its own processed image while
\* the first, under another filename, is still between its write and its read.
C10_Witness ==
    /\ NumRequests >= 2
    /\ req[1].pc = "read" /\ req[1].wrote
    /\ req[2].proc_reads = 1 /\ req[2].proc # <<>>
    /\ req[2].proc[1].by = 2
    /\ req[1].filename # req[2].filename
    /\ ~req[1].clash /\ ~req[2].clash

SpaceCount(text) == Cardinality({i \in DOMAIN text : text[i] = " "})

\* C11: every Extraction Result returned has a full_name that is first_name,
\* one space, last_name, neither name holding a space; and every top
\* candidate ner hands to the orchestrator holds exactly one space, so the
\* split never gives other than two tokens.
C11_FullNameSplits ==
    \A r \in Requests :
        /\ req[r].response.result # <<>> =>
              LET res == req[r].response.result[1]
              IN  /\ res.full_name = res.first_name \o <<" ">> \o res.last_name
                  /\ SpaceCount(res.first_name) = 0
                  /\ SpaceCount(res.last_name) = 0
                  /\ res.full_name = req[r].ner_results[1]
        /\ (req[r].ner_runs = 1 /\ req[r].ner_results # <<>>) =>
              SpaceCount(req[r].ner_results[1]) = 1

\* C11 witness: a request returned the result for "Jane Doe"
C11_Witness ==
    \E r \in Requests :
        /\ req[r].response.status = 200
        /\ req[r].response.result # <<>>
        /\ req[r].response.result[1].full_name = <<"J","a","n","e"," ","D","o","e">>
        /\ req[r].response.result[1].first_name = <<"J","a","n","e">>
        /\ req[r].response.result[1].last_name = <<"D","o","e">>

====
